---- MODULE Spec2Model ----
(***************************************************************************)
(* Model of the basecamp-cli pagination engine (pagination.py,             *)
(* handle_pagination) together with the "projects list" command that       *)
(* drives it (cli.py, list_projects) and the client call that fetches the  *)
(* pages (api_client.py, BasecampAPIClient.get_projects).                  *)
(*                                                                         *)
(* The server is a chain of pages.  A cursor is the index of the page it   *)
(* points to; None is the absent cursor.  Every page but the last points   *)
(* to its successor; the last page's cursor is absent or points back to a  *)
(* page of the chain (the engine has no cycle detection).                  *)
(***************************************************************************)
EXTENDS Integers, Sequences, FiniteSets, TLC

VARIABLES
    entry,            \* "engine": handle_pagination called directly; "list_projects": the command
    pages,            \* server: pages[i] is the item list of page i
    nextOf,           \* server: nextOf[i] is the cursor page i links to (None: no Link rel="next")
    argAccountId,     \* --account-id option of the command
    cfgAccountId,     \* account_id stored in the configuration file
    format,           \* --format option / the format format_func renders with
    all_pages,        \* --all-pages flag / handle_pagination's all_pages argument
    interactive,      \* handle_pagination's interactive argument
    items,            \* handle_pagination's items argument (first page)
    next_page_url,    \* handle_pagination's next_page_url argument
    cmd,              \* position of list_projects
    client,           \* account id of the BasecampAPIClient the command created (NoClient: none)
    all_data,         \* get_projects local: pages accumulated by the client
    client_next_url,  \* get_projects local: next_page_url
    pc,               \* position of handle_pagination
    all_items,        \* handle_pagination local
    current_next_url, \* handle_pagination local
    result,           \* value handle_pagination returned
    fetchCalls,       \* number of fetch_next_page calls made by handle_pagination
    fetchLog,         \* the cursors those calls were made with, in order
    prompts,          \* number of click.prompt calls
    choiceLog,        \* the normalised choices read, in order
    rendered,         \* the item lists handle_pagination passed to format_func and displayed
    stdout,           \* what click.echo wrote to standard output, in order
    stderr,           \* what click.echo(..., err=True) wrote, in order
    requests,         \* number of HTTP requests sent to the server
    failures,         \* number of those requests that raised BasecampAPIError
    exitCode,         \* exit status of the command (Running until it ends)
    rawLine,          \* prompt input on its own: the line typed
    choiceKind,       \* prompt input on its own: the branch it selects ("unread" before)
    keyring,          \* token store: keyring[key] is the stored password, <<>> when there is none
    now,              \* token store: datetime.now(), in seconds
    tmOp,             \* token store: the TokenManager method called last
    tmAccount,        \* token store: account_id the TokenManager of that call was built with
    tmArgs,           \* token store: arguments of that call
    tmReturn,         \* token store: what that call returned
    configFile,       \* configuration: content of config.json, <<>> when the file is missing
    written,          \* configuration: per key, the value most recently written
    cfgOp,            \* configuration: the Config method called last
    cfgKey,           \* configuration: the key that call wrote
    cfgArgs,          \* configuration: arguments of that call
    cliOp,            \* session: the command or client call run last
    cliArgs,          \* session: its inputs
    cliOutcome,       \* session: how it ended
    storeCalls,       \* session: store_tokens calls of the last auth run, per receiver
    exchangeCalls,    \* session: token exchanges attempted by the last auth run
    browserOpens,     \* session: webbrowser.open calls of the last auth run
    apiRequests,      \* session: HTTP requests sent by the last API call
    searchPc,         \* search: position of _handle_search_pagination
    all_results,      \* search: _handle_search_pagination local
    current_page,     \* search: _handle_search_pagination local
    searchFetches,    \* search: number of search_recordings calls it made
    searchPrompts,    \* search: number of click.prompt calls it made
    searchRendered    \* search: the result lists it displayed, in order

envVars == <<entry, pages, nextOf, argAccountId, cfgAccountId, format, all_pages>>
argVars == <<interactive, items, next_page_url>>
clientVars == <<client, all_data, client_next_url>>
engineVars == <<pc, all_items, current_next_url, result, fetchCalls, fetchLog,
                prompts, choiceLog, rendered>>
ioVars == <<stdout, stderr, requests, failures>>
pagVars == <<envVars, argVars, cmd, clientVars, engineVars, ioVars, exitCode>>
choiceVars == <<rawLine, choiceKind>>
tokenVars == <<keyring, now, tmOp, tmAccount, tmArgs, tmReturn>>
configVars == <<configFile, written, cfgOp, cfgKey, cfgArgs>>
searchVars == <<searchPc, all_results, current_page, searchFetches,
                searchPrompts, searchRendered>>
sessionVars == <<cliOp, cliArgs, cliOutcome, storeCalls, exchangeCalls,
                 browserOpens, apiRequests>>
sideVars == <<choiceVars, tokenVars, configVars, sessionVars, searchVars>>
vars == <<pagVars, sideVars>>

----------------------------------------------------------------------------
(* Bounds of the model *)

MaxPages == 3      \* pages of the server's chain
MaxPageLen == 1    \* items per page
MaxFetches == 3    \* fetch_next_page calls of one run (a cyclic chain never ends)
MaxPrompts == 3    \* prompts of one run (invalid input re-prompts for ever)
MaxLineLen == 3    \* characters of a line typed at the prompt, taken on its own
MaxTime == 3       \* seconds the clock of the token store advances
MaxExpiresIn == 2  \* largest expires_in a token is stored with

----------------------------------------------------------------------------
(* Values *)

\* the absent cursor (Python None); page cursors are 1, 2, ...
None == 0

\* an absent --account-id option / configuration entry (Python None)
NoAccount == -1

\* exit status of a command that has not finished
Running == -1

\* no BasecampAPIClient has been created
NoClient == -2

Formats == {"json", "table", "plain"}

AccountIds == {0, 1}

\* Python truthiness of an Optional cursor / Optional[int]: None, "" and 0 are falsy
Truthy(v) == v # None

\* item j of page i: records are opaque to the engine, so they are distinct ids
ItemId(i, j) == 10 * i + j

\* characters of the lines typed at the prompt when the input is taken on its own
LineChars == {" ", "a", "A", "q", "Q", "x", "X"}

RawLines == UNION { [1..n -> LineChars] : n \in 0..MaxLineLen }

\* lines typed at the prompt, as sequences of characters
RawInputs == { <<>>, <<" ">>, <<"a">>, <<"A">>, <<" ", "a", " ">>,
               <<"q">>, <<"Q">>, <<" ", "q">>, <<"x">> }

Whitespace == {" "}

RECURSIVE LStrip(_)
LStrip(s) == IF s # <<>> /\ Head(s) \in Whitespace THEN LStrip(Tail(s)) ELSE s

RECURSIVE RStrip(_)
RStrip(s) == IF s # <<>> /\ s[Len(s)] \in Whitespace
             THEN RStrip(SubSeq(s, 1, Len(s) - 1)) ELSE s

\* str.strip()
Strip(s) == RStrip(LStrip(s))

LowerChar(c) == CASE c = "A" -> "a"
                  [] c = "Q" -> "q"
                  [] c = "X" -> "x"
                  [] OTHER -> c

\* str.lower()
Lower(s) == [i \in 1..Len(s) |-> LowerChar(s[i])]

\* variant: the line is trimmed but not lower-cased
ReadChoiceNoLower(raw) == Strip(raw)

\* click.prompt(..., default="").strip().lower()
ReadChoice(raw) == Lower(Strip(raw))

\* variant: 'q' is not recognised and falls to the else branch
ClassifyNoQuit(choice) == CASE choice = <<"a">> -> "all"
                            [] choice = <<>> -> "next"
                            [] OTHER -> "invalid"

\* variant: the else branch loads the next page like Enter
ClassifyInvalidAsNext(choice) == CASE choice = <<"q">> -> "quit"
                                   [] choice = <<"a">> -> "all"
                                   [] OTHER -> "next"

\* the if/elif chain on choice in the prompt loop
Classify(choice) == CASE choice = <<"q">> -> "quit"
                      [] choice = <<"a">> -> "all"
                      [] choice = <<>> -> "next"
                      [] OTHER -> "invalid"

\* variant: the new page is put in front of the accumulated items
ExtendPrepend(lst, more) == more \o lst

\* variant: the new page replaces the accumulated items
ExtendReplace(lst, more) == more

\* variant: items already accumulated are not appended again
ExtendDedup(lst, more) ==
    lst \o SelectSeq(more, LAMBDA x : \A i \in 1..Len(lst) : lst[i] # x)

\* list.extend
Extend(lst, more) == lst \o more

\* variant: the accumulator starts empty instead of as a copy of the first page
CopyEmpty(lst) == <<>>

\* list.copy
Copy(lst) == lst

\* Formatter.format_output on a list: the rows in order, or the
\* "No items found." notice for an empty list in table and plain format
FormatOutput(data, format_type) ==
    [format |-> format_type,
     rows |-> data,
     notice |-> (format_type \in {"table", "plain"} /\ data = <<>>)]

Msg(m, n) == [msg |-> m, n |-> n]

\* variant: after an empty input the whole accumulated list is displayed
DisplayedAfterEnterAll(accumulated, next_items) == accumulated

\* pagination.py 76: after an empty input only the fetched page is displayed
DisplayedAfterEnter(accumulated, next_items) == next_items

\* variant: the non-interactive early return is missing
DispatchIgnoresInteractive(ap, cursor, inter) ==
    IF ap THEN "auto_loop"
    ELSE IF ~Truthy(cursor) THEN "returned"
    ELSE "prompt"

\* the branch handle_pagination takes after copying its arguments
Dispatch(ap, cursor, inter) ==
    IF ap THEN "auto_loop"
    ELSE IF ~Truthy(cursor) THEN "returned"
    ELSE IF ~inter THEN "returned"
    ELSE "prompt"

\* variant: plain output is paged interactively like table output
InteractiveForPlain(fmt, ap) == fmt \in {"table", "plain"} /\ ~ap

\* list_projects: interactive = (format == "table" and not all_pages)
Interactive(fmt, ap) == fmt = "table" /\ ~ap

\* list_projects: if not interactive or all_pages: echo the final result
OutputsFinal(inter, ap) == ~inter \/ ap

\* variant: the configured id wins over the argument
ResolveAccountIdConfigFirst(arg, cfg) == IF cfg # NoAccount THEN cfg ELSE arg

\* cli.get_account_id: the argument, else the configured id, else None (abort)
ResolveAccountId(arg, cfg) == IF arg # NoAccount THEN arg ELSE cfg

----------------------------------------------------------------------------
(* Values of the token store (token_manager.py).  An optional value is a
   sequence: <<>> is None, <<v>> is the value v. *)

KEYRING_KEY == "tokens"

\* account_id arguments a TokenManager is built with: None, "" and "1"
TMAccountArgs == {<<>>, <<"">>, <<"1">>}

\* the keys of the keyring the model keeps
KeyringKeys == {<<KEYRING_KEY, ":", id>> : id \in {"default", "1"}}

AccessTokens == {"at1", "at2"}

RefreshTokens == {<<>>, <<"rt1">>}

\* expires_in: None or a number of seconds
ExpiresIns == {<<>>} \cup {<<n>> : n \in 0..MaxExpiresIn}

\* TokenManager.__init__: self.account_id = account_id or "default"
AccountIdOf(account_id) ==
    IF account_id = <<>> \/ account_id[1] = "" THEN "default" ELSE account_id[1]

\* variant: every account shares one key
KeyringKeyShared(account_id) == <<KEYRING_KEY, ":", "default">>

\* TokenManager._get_keyring_key: f"{KEYRING_KEY}:{account_id}"
get_keyring_key(account_id) == <<KEYRING_KEY, ":", AccountIdOf(account_id)>>

\* datetime.isoformat: the text of a time
IsoFormat(t) == <<"T", t>>

\* datetime.fromisoformat: the time of a text written by isoformat
FromIsoFormat(text) == text[2]

\* token_manager.py 38-45: the document store_tokens writes at time t
TokenData(access_token, refresh_token, expires_in, t) ==
    [access_token |-> access_token,
     refresh_token |-> refresh_token,
     expires_at |-> IF expires_in # <<>> /\ expires_in[1] # 0
                    THEN <<IsoFormat(t + expires_in[1])>>
                    ELSE <<>>]

\* TokenManager.get_tokens: the stored document, None when there is none
get_tokens(account_id) == keyring[get_keyring_key(account_id)]

\* TokenManager.get_access_token
get_access_token(account_id) ==
    LET tokens == get_tokens(account_id)
    IN IF tokens = <<>> THEN <<>> ELSE <<tokens[1].access_token>>

\* TokenManager.is_token_expired
is_token_expired(account_id) ==
    LET tokens == get_tokens(account_id)
    IN IF tokens = <<>> THEN TRUE
       ELSE IF tokens[1].expires_at = <<>> THEN FALSE
       ELSE now >= FromIsoFormat(tokens[1].expires_at[1])

----------------------------------------------------------------------------
(* Values of the configuration (config.py).  A dict is a function from the
   keys to optional values: <<>> for a key the dict does not hold. *)

CfgKeys == {"oauth", "account_id", "theme"}

ClientIds == {"id1", "id2"}

ClientSecrets == {"s1"}

\* redirect_uri argument of configure_oauth: omitted or given
RedirectArgs == {<<>>, <<"http://localhost:9000/callback">>}

\* config.py 82: default of the redirect_uri parameter
DefaultRedirectUri == "http://localhost:8080/callback"

\* config.py 92-96: the dict stored under "oauth"
OauthSettings(client_id, client_secret, redirect_uri) ==
    [client_id |-> client_id,
     client_secret |-> client_secret,
     redirect_uri |-> redirect_uri]

\* the values Config.set is called with, per key
CfgValues(key) ==
    IF key = "oauth"
    THEN {OauthSettings(c, s, r) : c \in ClientIds, s \in ClientSecrets,
                                   r \in {DefaultRedirectUri,
                                          "http://localhost:9000/callback"}}
    ELSE IF key = "account_id" THEN {1, 2}
    ELSE {"light", "dark"}

EmptyDict == [k \in CfgKeys |-> <<>>]

\* Config.load: {} when the file does not exist
load == IF configFile = <<>> THEN EmptyDict ELSE configFile[1]

\* Config.save: the file holds the dict
save(config) == <<config>>

\* config[key] = value
Write(config, key, value) == [config EXCEPT ![key] = <<value>>]

\* Config.get(key): the value, None when the key is missing
get(key) == load[key]

\* Config.get_oauth_config
get_oauth_config == get("oauth")

\* Config.get_account_id: int(account_id), None when the key is missing
get_account_id ==
    IF get("account_id") = <<>> THEN NoAccount ELSE get("account_id")[1]

----------------------------------------------------------------------------
(* Values of a session of commands: auth, logout, tokens and API calls
   (auth.py, cli.py, api_client.py) *)

\* account ids given to a command or a client: None, 0 and 1
SessionAccounts == {NoAccount, 0, 1}

\* a Python value that counts as false: None or 0
Falsy(account_id) == account_id = NoAccount \/ account_id = 0

DigitChars == <<"0", "1", "2", "3", "4", "5", "6", "7", "8", "9">>

\* str(n) of a one-digit number
Str(n) == DigitChars[n + 1]

\* auth.py 102 and cli.py 134: str(account_id) if account_id else "default"
AccountIdStr(account_id) ==
    IF Falsy(account_id) THEN "default" ELSE Str(account_id)

\* the objects store_tokens can be called on: the attribute of the handler
\* and the local variable of authenticate
StoreReceivers == {"self.token_manager", "token_manager"}

NoStoreCalls == [r \in StoreReceivers |-> 0]

\* what the token endpoint answers: the request fails, or a response whose
\* access_token member is missing, empty or a token
ExchangeResults == {<<"failed">>, <<"response">>, <<"response", "">>,
                    <<"response", "at1">>, <<"response", "at2">>}

\* token_response.get("access_token") is a non-empty string
HasAccessToken(exchange) ==
    exchange[1] = "response" /\ Len(exchange) = 2 /\ exchange[2] # ""

\* api_client.py 32: token_manager or TokenManager(), the account_id argument
\* of the TokenManager the client of an account is built with
ClientTokenManager(account_id) == <<>>

\* variant: the request is sent without looking for an access token
ApiOutcomeNoTokenCheck(client_account, op_account) ==
    LET account_id == IF Falsy(op_account) THEN client_account ELSE op_account
    IN IF Falsy(account_id)
       THEN [outcome |-> "Account ID is required", requests |-> 0]
       ELSE [outcome |-> "sent", requests |-> 1]

\* api_client.py 167-178, 93-100, 35-43: an account-scoped operation of a
\* client built for client_account, called with op_account
ApiOutcome(client_account, op_account) ==
    LET account_id == IF Falsy(op_account) THEN client_account ELSE op_account
        access_token == get_access_token(ClientTokenManager(client_account))
    IN IF Falsy(account_id)
       THEN [outcome |-> "Account ID is required", requests |-> 0]
       ELSE IF access_token = <<>> \/ access_token[1] = ""
       THEN [outcome |-> "No access token available", requests |-> 0]
       ELSE [outcome |-> "sent", requests |-> 1]

----------------------------------------------------------------------------
(* Initial states *)

\* the prompt input taken on its own is not exercised
InitChoiceIdle ==
    /\ rawLine = <<>>
    /\ choiceKind = "idle"

\* no TokenManager is used
InitTokensIdle ==
    /\ keyring = [k \in KeyringKeys |-> <<>>]
    /\ now = 0
    /\ tmOp = "none"
    /\ tmAccount = <<>>
    /\ tmArgs = <<>>
    /\ tmReturn = <<>>

\* no Config method is called
InitConfigIdle ==
    /\ configFile = <<>>
    /\ written = EmptyDict
    /\ cfgOp = "none"
    /\ cfgKey = "none"
    /\ cfgArgs = <<>>

\* no command of a session is run
InitSessionIdle ==
    /\ cliOp = "none"
    /\ cliArgs = <<>>
    /\ cliOutcome = "none"
    /\ storeCalls = NoStoreCalls
    /\ exchangeCalls = 0
    /\ browserOpens = 0
    /\ apiRequests = 0

\* _handle_search_pagination is not called
InitSearchIdle ==
    /\ searchPc = "idle"
    /\ all_results = <<>>
    /\ current_page = None
    /\ searchFetches = 0
    /\ searchPrompts = 0
    /\ searchRendered = <<>>

InitSideIdle ==
    /\ InitChoiceIdle
    /\ InitTokensIdle
    /\ InitConfigIdle
    /\ InitSessionIdle
    /\ InitSearchIdle

InitCommon ==
    /\ InitSideIdle
    /\ client = NoClient
    /\ \E n \in 1..MaxPages, last \in 0..MaxPages :
         /\ last <= n
         /\ \E lens \in [1..n -> 0..MaxPageLen] :
              /\ pages = [i \in 1..n |-> [j \in 1..lens[i] |-> ItemId(i, j)]]
              /\ nextOf = [i \in 1..n |-> IF i < n THEN i + 1 ELSE last]
    /\ all_pages \in BOOLEAN
    /\ all_data = <<>>
    /\ client_next_url = None
    /\ all_items = <<>>
    /\ current_next_url = None
    /\ result = <<>>
    /\ fetchCalls = 0
    /\ fetchLog = <<>>
    /\ prompts = 0
    /\ choiceLog = <<>>
    /\ rendered = <<>>
    /\ failures = 0
    /\ stdout = <<>>
    /\ stderr = <<>>
    /\ exitCode = Running

\* handle_pagination about to be called on the first page of the chain;
\* format_func is opaque to it, the table renderer stands for it
InitEngine ==
    /\ entry = "engine"
    /\ InitCommon
    /\ format = "table"
    /\ argAccountId = NoAccount
    /\ cfgAccountId = NoAccount
    /\ interactive \in BOOLEAN
    /\ items = pages[1]
    /\ next_page_url = nextOf[1]
    /\ cmd = "none"
    /\ pc = "call"
    /\ requests = 1

\* "basecamp projects list" about to run
InitCommand ==
    /\ entry = "list_projects"
    /\ InitCommon
    /\ format \in Formats
    /\ argAccountId \in {NoAccount} \cup AccountIds
    /\ cfgAccountId \in {NoAccount} \cup AccountIds
    /\ interactive = FALSE
    /\ items = <<>>
    /\ next_page_url = None
    /\ cmd = "start"
    /\ pc = "idle"
    /\ requests = 0

Init == InitEngine \/ InitCommand

----------------------------------------------------------------------------
(* The server, as the fetcher sees it *)

\* fetch_next_page(url) -> (next_items, next_url)
FetchedItems(url) == pages[url]
FetchedNext(url) == nextOf[url]

----------------------------------------------------------------------------
(* handle_pagination *)

\* lines 29-50: copy the arguments and take the branch; the interactive
\* branch displays the first page before the first prompt
HandlePaginationCall ==
    /\ pc = "call"
    /\ all_items' = Copy(items)
    /\ current_next_url' = next_page_url
    /\ pc' = Dispatch(all_pages, next_page_url, interactive)
    /\ result' = IF pc' = "returned" THEN all_items' ELSE result
    /\ rendered' = IF pc' = "prompt" THEN Append(rendered, all_items') ELSE rendered
    /\ stdout' = IF pc' = "prompt"
                 THEN Append(stdout, FormatOutput(all_items', format))
                 ELSE stdout
    /\ UNCHANGED sideVars
    /\ UNCHANGED <<envVars, argVars, cmd, clientVars, fetchCalls, fetchLog,
                   prompts, choiceLog, stderr, requests, failures, exitCode>>

\* variant: the cursor returned by the fetch is dropped
FetchIntoKeepCursor(okPc) ==
    /\ fetchCalls < MaxFetches
    /\ fetchCalls' = fetchCalls + 1
    /\ fetchLog' = Append(fetchLog, current_next_url)
    /\ requests' = requests + 1
    /\ \E ok \in BOOLEAN :
         IF ok
         THEN /\ all_items' = Extend(all_items, FetchedItems(current_next_url))
              /\ current_next_url' = current_next_url
              /\ pc' = okPc
              /\ UNCHANGED failures
         ELSE /\ pc' = "raised"
              /\ failures' = failures + 1
              /\ UNCHANGED <<all_items, current_next_url>>

\* variant: a failed fetch is caught and the loop goes on
FetchIntoSwallow(okPc) ==
    /\ fetchCalls < MaxFetches
    /\ fetchCalls' = fetchCalls + 1
    /\ fetchLog' = Append(fetchLog, current_next_url)
    /\ requests' = requests + 1
    /\ \E ok \in BOOLEAN :
         IF ok
         THEN /\ all_items' = Extend(all_items, FetchedItems(current_next_url))
              /\ current_next_url' = FetchedNext(current_next_url)
              /\ pc' = okPc
              /\ UNCHANGED failures
         ELSE /\ pc' = okPc
              /\ failures' = failures + 1
              /\ UNCHANGED <<all_items, current_next_url>>

\* one call of fetch_next_page(current_next_url): it returns a page, which is
\* appended, or raises, which nothing in handle_pagination catches
FetchInto(okPc) ==
    /\ fetchCalls < MaxFetches
    /\ fetchCalls' = fetchCalls + 1
    /\ fetchLog' = Append(fetchLog, current_next_url)
    /\ requests' = requests + 1
    /\ \E ok \in BOOLEAN :
         IF ok
         THEN /\ all_items' = Extend(all_items, FetchedItems(current_next_url))
              /\ current_next_url' = FetchedNext(current_next_url)
              /\ pc' = okPc
              /\ UNCHANGED failures
         ELSE /\ pc' = "raised"
              /\ failures' = failures + 1
              /\ UNCHANGED <<all_items, current_next_url>>

\* lines 34-37: one iteration of the all_pages loop
AutoFetch ==
    /\ pc = "auto_loop"
    /\ Truthy(current_next_url)
    /\ stderr' = Append(stderr, Msg("Loading more items", Len(all_items)))
    /\ FetchInto("auto_loop")
    /\ UNCHANGED sideVars
    /\ UNCHANGED <<envVars, argVars, cmd, clientVars, result, prompts,
                   choiceLog, rendered, stdout, exitCode>>

\* lines 34, 38: the all_pages loop ends, return all_items
AutoReturn ==
    /\ pc = "auto_loop"
    /\ ~Truthy(current_next_url)
    /\ pc' = "returned"
    /\ result' = all_items
    /\ UNCHANGED sideVars
    /\ UNCHANGED <<envVars, argVars, cmd, clientVars, all_items,
                   current_next_url, fetchCalls, fetchLog, prompts, choiceLog,
                   rendered, ioVars, exitCode>>

\* lines 53-79: one iteration of the prompt loop, from the prompt to the
\* end of the branch the choice selects ('a' continues in the inner loop)
Prompt ==
    /\ pc = "prompt"
    /\ Truthy(current_next_url)
    /\ prompts < MaxPrompts
    /\ prompts' = prompts + 1
    /\ \E raw \in RawInputs :
         LET choice == ReadChoice(raw)
             kind == Classify(choice)
             shown == Append(stderr, Msg("Showing items", Len(all_items)))
         IN /\ choiceLog' = Append(choiceLog, choice)
            /\ CASE kind = "quit" ->
                      /\ pc' = "returned"
                      /\ result' = all_items
                      /\ stderr' = shown
                      /\ UNCHANGED <<all_items, current_next_url, fetchCalls,
                                     fetchLog, rendered, stdout, requests,
                                     failures>>
                 [] kind = "all" ->
                      /\ pc' = "load_all"
                      /\ stderr' = shown
                      /\ UNCHANGED <<all_items, current_next_url, result,
                                     fetchCalls, fetchLog, rendered, stdout,
                                     requests, failures>>
                 [] kind = "next" ->
                      /\ FetchInto("prompt")
                      /\ stderr' = shown
                      /\ rendered' = IF pc' = "prompt"
                                     THEN Append(rendered,
                                            DisplayedAfterEnter(all_items',
                                              FetchedItems(current_next_url)))
                                     ELSE rendered
                      /\ stdout' = IF pc' = "prompt"
                                   THEN Append(stdout,
                                          FormatOutput(
                                            DisplayedAfterEnter(all_items',
                                              FetchedItems(current_next_url)),
                                            format))
                                   ELSE stdout
                      /\ UNCHANGED result
                 [] OTHER ->
                      /\ pc' = "prompt"
                      /\ stderr' = Append(shown, Msg("Invalid choice", 0))
                      /\ UNCHANGED <<all_items, current_next_url, result,
                                     fetchCalls, fetchLog, rendered, stdout,
                                     requests, failures>>
    /\ UNCHANGED sideVars
    /\ UNCHANGED <<envVars, argVars, cmd, clientVars, exitCode>>

\* lines 53, 81: the prompt loop ends because no cursor is left
PromptLoopExit ==
    /\ pc = "prompt"
    /\ ~Truthy(current_next_url)
    /\ pc' = "returned"
    /\ result' = all_items
    /\ UNCHANGED sideVars
    /\ UNCHANGED <<envVars, argVars, cmd, clientVars, all_items,
                   current_next_url, fetchCalls, fetchLog, prompts, choiceLog,
                   rendered, ioVars, exitCode>>

\* variant: 'a' loads one page and goes back to the prompt
LoadAllFetchOnce ==
    /\ pc = "load_all"
    /\ Truthy(current_next_url)
    /\ stderr' = Append(stderr, Msg("Loading more items", Len(all_items)))
    /\ FetchInto("prompt")
    /\ UNCHANGED sideVars
    /\ UNCHANGED <<envVars, argVars, cmd, clientVars, result, prompts,
                   choiceLog, rendered, stdout, exitCode>>

\* lines 65-68: one iteration of the 'a' loop
LoadAllFetch ==
    /\ pc = "load_all"
    /\ Truthy(current_next_url)
    /\ stderr' = Append(stderr, Msg("Loading more items", Len(all_items)))
    /\ FetchInto("load_all")
    /\ UNCHANGED sideVars
    /\ UNCHANGED <<envVars, argVars, cmd, clientVars, result, prompts,
                   choiceLog, rendered, stdout, exitCode>>

\* lines 69-71, 81: display the final result, break, return all_items
LoadAllDone ==
    /\ pc = "load_all"
    /\ ~Truthy(current_next_url)
    /\ rendered' = Append(rendered, all_items)
    /\ stdout' = Append(stdout, FormatOutput(all_items, format))
    /\ pc' = "returned"
    /\ result' = all_items
    /\ UNCHANGED sideVars
    /\ UNCHANGED <<envVars, argVars, cmd, clientVars, all_items,
                   current_next_url, fetchCalls, fetchLog, prompts, choiceLog,
                   stderr, requests, failures, exitCode>>

----------------------------------------------------------------------------
(* list_projects and BasecampAPIClient.get_projects *)

\* except BasecampAPIError / click.Abort: the message, then exit status 1
Abort(message) ==
    /\ stderr' = Append(Append(stderr, Msg(message, 0)), Msg("Aborted!", 0))
    /\ cmd' = "aborted"
    /\ exitCode' = 1

\* cli.py 187-190 and api_client.py 167-187: resolve the account id, create
\* the client and send the request for the first page
ListProjectsStart ==
    /\ cmd = "start"
    /\ LET account_id == ResolveAccountId(argAccountId, cfgAccountId)
       IN IF account_id = NoAccount
          THEN /\ Abort("Error: Account ID is required. Either provide --account-id or configure it")
               /\ UNCHANGED <<argVars, clientVars, pc, requests, failures>>
          ELSE IF ~Truthy(account_id)
          THEN /\ client' = account_id
               /\ Abort("Error: Account ID is required")
               /\ UNCHANGED <<argVars, all_data, client_next_url, pc, requests,
                              failures>>
          ELSE /\ client' = account_id
               /\ requests' = requests + 1
               /\ \E ok \in BOOLEAN :
                    IF ~ok
                    THEN /\ Abort("Error: request failed")
                         /\ failures' = failures + 1
                         /\ UNCHANGED <<argVars, all_data, client_next_url, pc>>
                    ELSE IF all_pages /\ Truthy(nextOf[1])
                    THEN /\ all_data' = pages[1]
                         /\ client_next_url' = nextOf[1]
                         /\ cmd' = "get_projects_loop"
                         /\ UNCHANGED <<argVars, pc, stderr, failures, exitCode>>
                    ELSE /\ items' = pages[1]
                         /\ next_page_url' = nextOf[1]
                         /\ interactive' = Interactive(format, all_pages)
                         /\ cmd' = "in_engine"
                         /\ pc' = "call"
                         /\ UNCHANGED <<all_data, client_next_url, stderr,
                                        failures, exitCode>>
    /\ UNCHANGED sideVars
    /\ UNCHANGED <<envVars, all_items, current_next_url, result, fetchCalls,
                   fetchLog, prompts, choiceLog, rendered, stdout>>

\* api_client.py 192-203: one iteration of the client's all_pages loop
GetProjectsLoopFetch ==
    /\ cmd = "get_projects_loop"
    /\ Truthy(client_next_url)
    /\ requests <= MaxFetches
    /\ requests' = requests + 1
    /\ \E ok \in BOOLEAN :
         IF ok
         THEN /\ all_data' = Extend(all_data, pages[client_next_url])
              /\ client_next_url' = nextOf[client_next_url]
              /\ UNCHANGED <<client, cmd, stderr, failures, exitCode>>
         ELSE /\ Abort("Error: request failed")
              /\ failures' = failures + 1
              /\ UNCHANGED clientVars
    /\ UNCHANGED sideVars
    /\ UNCHANGED <<envVars, argVars, engineVars, stdout>>

\* variant: the client hands over the first page and its cursor only
GetProjectsLoopReturnFirstPage ==
    /\ cmd = "get_projects_loop"
    /\ ~Truthy(client_next_url)
    /\ items' = pages[1]
    /\ next_page_url' = nextOf[1]
    /\ interactive' = Interactive(format, all_pages)
    /\ cmd' = "in_engine"
    /\ pc' = "call"
    /\ UNCHANGED sideVars
    /\ UNCHANGED <<envVars, clientVars, all_items, current_next_url, result,
                   fetchCalls, fetchLog, prompts, choiceLog, rendered, ioVars,
                   exitCode>>

\* api_client.py 205 and cli.py 200-210: return (all_data, None) and call
\* handle_pagination
GetProjectsLoopReturn ==
    /\ cmd = "get_projects_loop"
    /\ ~Truthy(client_next_url)
    /\ items' = all_data
    /\ next_page_url' = None
    /\ interactive' = Interactive(format, all_pages)
    /\ cmd' = "in_engine"
    /\ pc' = "call"
    /\ UNCHANGED sideVars
    /\ UNCHANGED <<envVars, clientVars, all_items, current_next_url, result,
                   fetchCalls, fetchLog, prompts, choiceLog, rendered, ioVars,
                   exitCode>>

\* cli.py 212-215: output the final result unless it was displayed interactively
ListProjectsFinish ==
    /\ cmd = "in_engine"
    /\ pc = "returned"
    /\ stdout' = IF OutputsFinal(interactive, all_pages)
                 THEN Append(stdout, FormatOutput(result, format))
                 ELSE stdout
    /\ cmd' = "done"
    /\ exitCode' = 0
    /\ UNCHANGED sideVars
    /\ UNCHANGED <<envVars, argVars, clientVars, engineVars, stderr, requests,
                   failures>>

\* cli.py 216-218: a BasecampAPIError raised by a fetch_next_page call
ListProjectsExcept ==
    /\ cmd = "in_engine"
    /\ pc = "raised"
    /\ Abort("Error: request failed")
    /\ UNCHANGED sideVars
    /\ UNCHANGED <<envVars, argVars, clientVars, engineVars, stdout, requests,
                   failures>>

----------------------------------------------------------------------------

Next ==
    \/ HandlePaginationCall
    \/ AutoFetch
    \/ AutoReturn
    \/ Prompt
    \/ PromptLoopExit
    \/ LoadAllFetch
    \/ LoadAllDone
    \/ ListProjectsStart
    \/ GetProjectsLoopFetch
    \/ GetProjectsLoopReturn
    \/ ListProjectsFinish
    \/ ListProjectsExcept

Spec == Init /\ [][Next]_vars

\* handle_pagination alone: a sequential program, so its next statement is
\* always executed, and click.prompt returns once the user answers
NextEngine ==
    \/ HandlePaginationCall
    \/ AutoFetch
    \/ AutoReturn
    \/ Prompt
    \/ PromptLoopExit
    \/ LoadAllFetch
    \/ LoadAllDone

SpecLive == InitEngine /\ [][NextEngine]_vars /\ WF_vars(NextEngine)

----------------------------------------------------------------------------
(* The prompt input on its own: a wider set of typed lines than the runs of
   handle_pagination above explore *)

\* no pagination run: the variables of the runs above stay at rest
InitPagIdle ==
    /\ entry = "none"
    /\ pages = <<<<>>>>
    /\ nextOf = <<None>>
    /\ argAccountId = NoAccount
    /\ cfgAccountId = NoAccount
    /\ format = "plain"
    /\ all_pages = FALSE
    /\ interactive = FALSE
    /\ items = <<>>
    /\ next_page_url = None
    /\ cmd = "none"
    /\ client = NoClient
    /\ all_data = <<>>
    /\ client_next_url = None
    /\ pc = "idle"
    /\ all_items = <<>>
    /\ current_next_url = None
    /\ result = <<>>
    /\ fetchCalls = 0
    /\ fetchLog = <<>>
    /\ prompts = 0
    /\ choiceLog = <<>>
    /\ rendered = <<>>
    /\ stdout = <<>>
    /\ stderr = <<>>
    /\ requests = 0
    /\ failures = 0
    /\ exitCode = Running

InitChoice ==
    /\ InitPagIdle
    /\ InitTokensIdle
    /\ InitConfigIdle
    /\ InitSessionIdle
    /\ InitSearchIdle
    /\ rawLine \in RawLines
    /\ choiceKind = "unread"

\* pagination.py 55-79: read the line, normalise it, select the branch
ReadLine ==
    /\ choiceKind = "unread"
    /\ choiceKind' = Classify(ReadChoice(rawLine))
    /\ UNCHANGED <<rawLine, pagVars, tokenVars, configVars, sessionVars, searchVars>>

NextChoice == ReadLine

SpecChoice == InitChoice /\ [][NextChoice]_vars

----------------------------------------------------------------------------
(* The token store: TokenManager objects of several accounts over one
   keyring, and a clock *)

InitTokens ==
    /\ InitPagIdle
    /\ InitChoiceIdle
    /\ InitConfigIdle
    /\ InitSessionIdle
    /\ InitSearchIdle
    /\ InitTokensIdle

\* TokenManager(account_id).store_tokens(access_token, refresh_token, expires_in)
StoreTokens ==
    /\ \E account_id \in TMAccountArgs, access_token \in AccessTokens,
          refresh_token \in RefreshTokens, expires_in \in ExpiresIns :
         /\ keyring' = [keyring EXCEPT ![get_keyring_key(account_id)] =
                          <<TokenData(access_token, refresh_token, expires_in, now)>>]
         /\ tmOp' = "store_tokens"
         /\ tmAccount' = account_id
         /\ tmArgs' = <<access_token, refresh_token, expires_in>>
         /\ tmReturn' = <<>>
    /\ UNCHANGED <<now, pagVars, choiceVars, configVars,
                   sessionVars, searchVars>>

\* TokenManager(account_id).get_tokens()
GetTokens ==
    /\ \E account_id \in TMAccountArgs :
         /\ tmOp' = "get_tokens"
         /\ tmAccount' = account_id
         /\ tmArgs' = <<>>
         /\ tmReturn' = get_tokens(account_id)
    /\ UNCHANGED <<keyring, now, pagVars, choiceVars, configVars,
                   sessionVars, searchVars>>

\* TokenManager(account_id).get_access_token()
GetAccessToken ==
    /\ \E account_id \in TMAccountArgs :
         /\ tmOp' = "get_access_token"
         /\ tmAccount' = account_id
         /\ tmArgs' = <<>>
         /\ tmReturn' = get_access_token(account_id)
    /\ UNCHANGED <<keyring, now, pagVars, choiceVars, configVars,
                   sessionVars, searchVars>>

\* TokenManager(account_id).is_token_expired()
IsTokenExpired ==
    /\ \E account_id \in TMAccountArgs :
         /\ tmOp' = "is_token_expired"
         /\ tmAccount' = account_id
         /\ tmArgs' = <<>>
         /\ tmReturn' = is_token_expired(account_id)
    /\ UNCHANGED <<keyring, now, pagVars, choiceVars, configVars,
                   sessionVars, searchVars>>

\* variant: the password is left in the keyring
ClearTokensNoDelete ==
    /\ \E account_id \in TMAccountArgs :
         /\ tmOp' = "clear_tokens"
         /\ tmAccount' = account_id
         /\ tmArgs' = <<>>
         /\ tmReturn' = "deleted"
    /\ UNCHANGED <<keyring, now, pagVars, choiceVars, configVars,
                   sessionVars, searchVars>>

\* TokenManager(account_id).clear_tokens(): delete_password raises
\* PasswordDeleteError for a key without a password, which is ignored
ClearTokens ==
    /\ \E account_id \in TMAccountArgs :
         LET key == get_keyring_key(account_id)
         IN /\ keyring' = [keyring EXCEPT ![key] = <<>>]
            /\ tmOp' = "clear_tokens"
            /\ tmAccount' = account_id
            /\ tmArgs' = <<>>
            /\ tmReturn' = IF keyring[key] = <<>>
                           THEN "PasswordDeleteError ignored"
                           ELSE "deleted"
    /\ UNCHANGED <<now, pagVars, choiceVars, configVars,
                   sessionVars, searchVars>>

\* a second passes
Tick ==
    /\ now < MaxTime
    /\ now' = now + 1
    /\ tmOp' = "tick"
    /\ tmAccount' = <<>>
    /\ tmArgs' = <<>>
    /\ tmReturn' = <<>>
    /\ UNCHANGED <<keyring, pagVars, choiceVars, configVars,
                   sessionVars, searchVars>>

NextTokens ==
    \/ StoreTokens
    \/ GetTokens
    \/ GetAccessToken
    \/ IsTokenExpired
    \/ ClearTokens
    \/ Tick

SpecTokens == InitTokens /\ [][NextTokens]_vars

----------------------------------------------------------------------------
(* The configuration file: Config objects over one config.json *)

InitConfig ==
    /\ InitPagIdle
    /\ InitChoiceIdle
    /\ InitTokensIdle
    /\ InitSessionIdle
    /\ InitSearchIdle
    /\ InitConfigIdle

\* Config.set(key, value): load, assign the key, save
ConfigSet ==
    /\ \E key \in CfgKeys :
         \E value \in CfgValues(key) :
           /\ configFile' = save(Write(load, key, value))
           /\ written' = [written EXCEPT ![key] = <<value>>]
           /\ cfgOp' = "set"
           /\ cfgKey' = key
           /\ cfgArgs' = <<key, value>>
    /\ UNCHANGED <<pagVars, choiceVars, tokenVars, sessionVars, searchVars>>

\* variant: the settings are written into an empty dict
ConfigureOauthFresh ==
    /\ \E client_id \in ClientIds, client_secret \in ClientSecrets,
          given \in RedirectArgs :
         LET redirect_uri == IF given = <<>> THEN DefaultRedirectUri ELSE given[1]
             oauth == OauthSettings(client_id, client_secret, redirect_uri)
         IN /\ configFile' = save(Write(EmptyDict, "oauth", oauth))
            /\ written' = [written EXCEPT !["oauth"] = <<oauth>>]
            /\ cfgOp' = "configure_oauth"
            /\ cfgKey' = "oauth"
            /\ cfgArgs' = <<client_id, client_secret, given>>
    /\ UNCHANGED <<pagVars, choiceVars, tokenVars, sessionVars, searchVars>>

\* Config.configure_oauth(client_id, client_secret[, redirect_uri])
ConfigureOauth ==
    /\ \E client_id \in ClientIds, client_secret \in ClientSecrets,
          given \in RedirectArgs :
         LET redirect_uri == IF given = <<>> THEN DefaultRedirectUri ELSE given[1]
             oauth == OauthSettings(client_id, client_secret, redirect_uri)
         IN /\ configFile' = save(Write(load, "oauth", oauth))
            /\ written' = [written EXCEPT !["oauth"] = <<oauth>>]
            /\ cfgOp' = "configure_oauth"
            /\ cfgKey' = "oauth"
            /\ cfgArgs' = <<client_id, client_secret, given>>
    /\ UNCHANGED <<pagVars, choiceVars, tokenVars, sessionVars, searchVars>>

\* Config.set_account_id(account_id): set("account_id", account_id)
SetAccountId ==
    /\ \E account_id \in CfgValues("account_id") :
         /\ configFile' = save(Write(load, "account_id", account_id))
         /\ written' = [written EXCEPT !["account_id"] = <<account_id>>]
         /\ cfgOp' = "set_account_id"
         /\ cfgKey' = "account_id"
         /\ cfgArgs' = <<account_id>>
    /\ UNCHANGED <<pagVars, choiceVars, tokenVars, sessionVars, searchVars>>

NextConfig ==
    \/ ConfigSet
    \/ ConfigureOauth
    \/ SetAccountId

SpecConfig == InitConfig /\ [][NextConfig]_vars

----------------------------------------------------------------------------
(* A session: the auth, logout and tokens commands, list commands and direct
   calls of the API client, over one configuration file and one keyring *)

\* OAuth is configured or not, an account id is configured or not
InitSession ==
    /\ InitPagIdle
    /\ InitChoiceIdle
    /\ InitTokensIdle
    /\ InitSessionIdle
    /\ InitSearchIdle
    /\ cfgOp = "none"
    /\ cfgKey = "none"
    /\ cfgArgs = <<>>
    /\ \E configured \in BOOLEAN, account_id \in SessionAccounts :
         LET oauth == OauthSettings("id1", "s1", DefaultRedirectUri)
             d0 == IF configured THEN Write(EmptyDict, "oauth", oauth) ELSE EmptyDict
             d1 == IF account_id # NoAccount
                   THEN Write(d0, "account_id", account_id) ELSE d0
         IN /\ configFile = IF d1 = EmptyDict THEN <<>> ELSE save(d1)
            /\ written = d1

\* "basecamp auth [--account-id N]": AuthHandler.authenticate
Auth ==
    /\ \E arg \in SessionAccounts, exchange \in ExchangeResults :
         LET oauth_config == get_oauth_config
             account_id == IF arg # NoAccount THEN arg ELSE get_account_id
             token_manager == <<AccountIdStr(account_id)>>
         IN /\ cliOp' = "auth"
            /\ IF oauth_config = <<>>
               THEN /\ cliArgs' = <<arg>>
                    /\ cliOutcome' = "OAuth2 not configured"
                    /\ storeCalls' = NoStoreCalls
                    /\ exchangeCalls' = 0
                    /\ browserOpens' = 0
                    /\ UNCHANGED <<configFile, written, keyring>>
               ELSE /\ cliArgs' = <<arg, exchange>>
                    /\ IF account_id # NoAccount
                       THEN /\ configFile' = save(Write(load, "account_id", account_id))
                            /\ written' = [written EXCEPT !["account_id"] = <<account_id>>]
                       ELSE UNCHANGED <<configFile, written>>
                    /\ browserOpens' = 1
                    /\ exchangeCalls' = 1
                    /\ IF exchange[1] = "failed"
                       THEN /\ cliOutcome' = "Authentication failed"
                            /\ storeCalls' = NoStoreCalls
                            /\ UNCHANGED keyring
                       ELSE IF ~HasAccessToken(exchange)
                       THEN /\ cliOutcome' = "Error: No access token in response"
                            /\ storeCalls' = NoStoreCalls
                            /\ UNCHANGED keyring
                       ELSE /\ cliOutcome' = "Authentication successful"
                            /\ storeCalls' = [NoStoreCalls EXCEPT !["token_manager"] = 1]
                            /\ keyring' = [keyring EXCEPT ![get_keyring_key(token_manager)] =
                                             <<TokenData(exchange[2], <<>>, <<>>, now)>>]
    /\ apiRequests' = 0
    /\ UNCHANGED <<now, tmOp, tmAccount, tmArgs, tmReturn, cfgOp, cfgKey, cfgArgs,
                   pagVars, choiceVars, searchVars>>

\* "basecamp logout": TokenManager().clear_tokens()
Logout ==
    /\ keyring' = [keyring EXCEPT ![get_keyring_key(<<>>)] = <<>>]
    /\ cliOp' = "logout"
    /\ cliArgs' = <<>>
    /\ cliOutcome' = "Logged out successfully"
    /\ storeCalls' = NoStoreCalls
    /\ exchangeCalls' = 0
    /\ browserOpens' = 0
    /\ apiRequests' = 0
    /\ UNCHANGED <<now, tmOp, tmAccount, tmArgs, tmReturn, configVars, pagVars,
                   choiceVars, searchVars>>

\* "basecamp tokens [--account-id N]"
ShowTokens ==
    /\ \E arg \in SessionAccounts :
         LET account_id == IF arg # NoAccount THEN arg ELSE get_account_id
             tokens == get_tokens(<<AccountIdStr(account_id)>>)
         IN /\ cliOp' = "tokens"
            /\ cliArgs' = <<arg>>
            /\ cliOutcome' = IF tokens = <<>> THEN "No tokens found" ELSE "shown"
    /\ storeCalls' = NoStoreCalls
    /\ exchangeCalls' = 0
    /\ browserOpens' = 0
    /\ apiRequests' = 0
    /\ UNCHANGED <<tokenVars, configVars, pagVars, choiceVars, searchVars>>

\* a list command up to its first request: get_account_id, the client,
\* the operation
ApiCommand ==
    /\ \E arg \in SessionAccounts :
         LET account_id == ResolveAccountId(arg, get_account_id)
         IN /\ cliOp' = "api_command"
            /\ cliArgs' = <<arg>>
            /\ IF account_id = NoAccount
               THEN /\ cliOutcome' = "Account ID is required"
                    /\ apiRequests' = 0
               ELSE /\ cliOutcome' = ApiOutcome(account_id, NoAccount).outcome
                    /\ apiRequests' = ApiOutcome(account_id, NoAccount).requests
    /\ storeCalls' = NoStoreCalls
    /\ exchangeCalls' = 0
    /\ browserOpens' = 0
    /\ UNCHANGED <<tokenVars, configVars, pagVars, choiceVars, searchVars>>

\* BasecampAPIClient(account_id=c).<operation>(account_id=o)
ApiOperation ==
    /\ \E client_account \in SessionAccounts, op_account \in SessionAccounts :
         /\ cliOp' = "api_client"
         /\ cliArgs' = <<client_account, op_account>>
         /\ cliOutcome' = ApiOutcome(client_account, op_account).outcome
         /\ apiRequests' = ApiOutcome(client_account, op_account).requests
    /\ storeCalls' = NoStoreCalls
    /\ exchangeCalls' = 0
    /\ browserOpens' = 0
    /\ UNCHANGED <<tokenVars, configVars, pagVars, choiceVars, searchVars>>

NextSession ==
    \/ Auth
    \/ Logout
    \/ ShowTokens
    \/ ApiCommand
    \/ ApiOperation

SpecSession == InitSession /\ [][NextSession]_vars

----------------------------------------------------------------------------
(* The interactive loop of the search command, replaying a run of
   handle_pagination: it is given the first page and the cursor the engine
   was given, reads the lines the engine read, and its search_recordings
   calls meet the outcome the engine's fetches met *)

\* --per-page
PerPage == MaxPageLen

\* api_client.py 578-587: the results of a page and the next page number,
\* which is absent after a page shorter than per_page
SearchRecordings(page) ==
    LET data == IF page \in 1..Len(pages) THEN pages[page] ELSE <<>>
    IN [data |-> data,
        next_page |-> IF Len(data) >= PerPage THEN page + 1 ELSE None]

\* an interactive run of handle_pagination over the pages of a search: every
\* page but the last is full, the last one is shorter
InitSearch ==
    /\ InitEngine
    /\ interactive
    /\ ~all_pages
    /\ \A i \in 1..Len(pages) : nextOf[i] = SearchRecordings(i).next_page

\* cli.py 531-538, 584-599: take the branch; without the interactive loop
\* the results are output at once
SearchCall ==
    /\ searchPc = "idle"
    /\ pc # "call"
    /\ IF ~all_pages /\ Truthy(next_page_url) /\ format = "table"
       THEN /\ all_results' = Copy(items)
            /\ current_page' = next_page_url
            /\ searchPc' = "prompt"
            /\ UNCHANGED searchRendered
       ELSE /\ all_results' = items
            /\ searchRendered' = Append(searchRendered, items)
            /\ searchPc' = "returned"
            /\ UNCHANGED current_page
    /\ UNCHANGED <<searchFetches, searchPrompts>>
    /\ UNCHANGED <<pagVars, choiceVars, tokenVars, configVars, sessionVars>>

\* one call of client.search_recordings(page=current_page), meeting what the
\* engine's call of the same rank met
SearchFetchInto(okPc) ==
    /\ searchFetches < fetchCalls
    /\ searchFetches' = searchFetches + 1
    /\ IF pc = "raised" /\ searchFetches + 1 = fetchCalls
       THEN /\ searchPc' = "raised"
            /\ UNCHANGED <<all_results, current_page>>
       ELSE /\ all_results' = Extend(all_results, SearchRecordings(current_page).data)
            /\ current_page' = SearchRecordings(current_page).next_page
            /\ searchPc' = okPc

\* cli.py 539-581: one iteration of the prompt loop, from the display of the
\* results to the end of the branch the choice selects; after 'q' the
\* results are displayed once more and returned
SearchPrompt ==
    /\ searchPc = "prompt"
    /\ Truthy(current_page)
    /\ searchPrompts < prompts
    /\ searchPrompts' = searchPrompts + 1
    /\ LET choice == ReadChoice(choiceLog[searchPrompts + 1])
           kind == Classify(choice)
           shown == Append(searchRendered, all_results)
       IN CASE kind = "quit" ->
                 /\ searchPc' = "returned"
                 /\ searchRendered' = Append(shown, all_results)
                 /\ UNCHANGED <<all_results, current_page, searchFetches>>
            [] kind = "all" ->
                 /\ searchPc' = "load_all"
                 /\ searchRendered' = shown
                 /\ UNCHANGED <<all_results, current_page, searchFetches>>
            [] kind = "next" ->
                 /\ SearchFetchInto("prompt")
                 /\ searchRendered' = shown
            [] OTHER ->
                 /\ searchPc' = "prompt"
                 /\ searchRendered' = shown
                 /\ UNCHANGED <<all_results, current_page, searchFetches>>
    /\ UNCHANGED <<pagVars, choiceVars, tokenVars, configVars, sessionVars>>

\* cli.py 539, 583-585: the prompt loop ends because no page is left
SearchPromptLoopExit ==
    /\ searchPc = "prompt"
    /\ ~Truthy(current_page)
    /\ searchRendered' = Append(searchRendered, all_results)
    /\ searchPc' = "returned"
    /\ UNCHANGED <<all_results, current_page, searchFetches, searchPrompts>>
    /\ UNCHANGED <<pagVars, choiceVars, tokenVars, configVars, sessionVars>>

\* variant: 'a' loads one page and goes back to the prompt
SearchLoadAllFetchOnce ==
    /\ searchPc = "load_all"
    /\ Truthy(current_page)
    /\ SearchFetchInto("prompt")
    /\ UNCHANGED <<searchPrompts, searchRendered>>
    /\ UNCHANGED <<pagVars, choiceVars, tokenVars, configVars, sessionVars>>

\* cli.py 553-566: one iteration of the 'a' loop
SearchLoadAllFetch ==
    /\ searchPc = "load_all"
    /\ Truthy(current_page)
    /\ SearchFetchInto("load_all")
    /\ UNCHANGED <<searchPrompts, searchRendered>>
    /\ UNCHANGED <<pagVars, choiceVars, tokenVars, configVars, sessionVars>>

\* cli.py 553, 567, 583-585: the 'a' loop ends, break, display, return
SearchLoadAllDone ==
    /\ searchPc = "load_all"
    /\ ~Truthy(current_page)
    /\ searchRendered' = Append(searchRendered, all_results)
    /\ searchPc' = "returned"
    /\ UNCHANGED <<all_results, current_page, searchFetches, searchPrompts>>
    /\ UNCHANGED <<pagVars, choiceVars, tokenVars, configVars, sessionVars>>

NextSearch ==
    \/ HandlePaginationCall
    \/ Prompt
    \/ PromptLoopExit
    \/ LoadAllFetch
    \/ LoadAllDone
    \/ SearchCall
    \/ SearchPrompt
    \/ SearchPromptLoopExit
    \/ SearchLoadAllFetch
    \/ SearchLoadAllDone

SpecSearch == InitSearch /\ [][NextSearch]_vars

----------------------------------------------------------------------------
(* Vocabulary of the properties *)

Last(s) == s[Len(s)]

IsPrefix(s, t) == Len(s) <= Len(t) /\ SubSeq(t, 1, Len(s)) = s

\* the chain ends: the last page carries no cursor
ChainIsFinite == nextOf[Len(pages)] = None

\* the cursor reached from cursor c after j fetches
RECURSIVE CursorAfter(_, _)
CursorAfter(c, j) == IF j = 0 THEN c ELSE CursorAfter(nextOf[c], j - 1)

\* the items of the k pages fetched one after the other starting with cursor c
RECURSIVE ConcatWalk(_, _)
ConcatWalk(c, k) == IF k = 0 THEN <<>> ELSE pages[c] \o ConcatWalk(nextOf[c], k - 1)

\* in a finite chain, the number of pages from cursor c to the last page
RemainingPages(c) == IF c = None THEN 0 ELSE Len(pages) - c + 1

\* the items of all those pages
ConcatRemaining(c) == ConcatWalk(c, RemainingPages(c))

Enter == <<>>
LoadAll == <<"a">>
Quit == <<"q">>

\* number of empty inputs in a choice log
RECURSIVE CountEnters(_)
CountEnters(log) == IF log = <<>> THEN 0
                    ELSE (IF Head(log) = Enter THEN 1 ELSE 0) + CountEnters(Tail(log))

\* the step is one prompt iteration that read the given choice
PromptStep(choice) ==
    /\ pc = "prompt"
    /\ prompts' = prompts + 1
    /\ choiceLog' = Append(choiceLog, choice)

----------------------------------------------------------------------------
(* Properties *)

\* C1: with all_pages, the returned list is the first page's items followed by
\* the items of every remaining page in fetch order, up to the page without a
\* cursor, and fetch_next_page was called exactly once per remaining page,
\* each time with the cursor of the page before.
C1_AutoAllConcatenates ==
    (pc = "returned" /\ all_pages) =>
        /\ Truthy(next_page_url) => ChainIsFinite
        /\ result = items \o ConcatRemaining(next_page_url)
        /\ fetchCalls = RemainingPages(next_page_url)
        /\ fetchLog = [i \in 1..RemainingPages(next_page_url) |-> next_page_url + i - 1]
        /\ prompts = 0

C1_Witness ==
    /\ entry = "engine"
    /\ pc = "returned"
    /\ all_pages
    /\ fetchCalls = 2
    /\ result = <<ItemId(1, 1), ItemId(2, 1), ItemId(3, 1)>>

\* C2: not interactive, not all_pages, cursor present on the first page: the
\* call returns exactly the first page's items, with no fetch_next_page call,
\* no prompt and nothing rendered.
C2_NonInteractiveFirstPageOnly ==
    (pc \notin {"idle", "call"} /\ ~interactive /\ ~all_pages /\ Truthy(next_page_url)) =>
        /\ pc = "returned"
        /\ result = items
        /\ items = pages[1]
        /\ fetchCalls = 0
        /\ prompts = 0
        /\ rendered = <<>>

C2_Witness ==
    /\ pc = "returned"
    /\ ~interactive
    /\ ~all_pages
    /\ next_page_url = 2
    /\ result = <<ItemId(1, 1)>>
    /\ fetchCalls = 0

\* C3: first page without a cursor: whatever all_pages and interactive are,
\* the call returns exactly the first page's items with no fetch_next_page
\* call and no prompt.
C3_NoCursorReturnsFirstPage ==
    (pc \notin {"idle", "call"} /\ ~Truthy(next_page_url)) =>
        /\ pc \in {"auto_loop", "returned"}
        /\ pc = "returned" => result = items
        /\ all_items = items
        /\ fetchCalls = 0
        /\ prompts = 0

C3_Witness ==
    /\ entry = "engine"
    /\ pc = "returned"
    /\ next_page_url = None
    /\ interactive
    /\ all_pages
    /\ result = <<ItemId(1, 1)>>

\* C4: an empty input makes exactly one fetch_next_page call, with the current
\* cursor; when it returns, exactly its items are appended to the accumulated
\* items and the cursor becomes the one it returned; the loop then prompts
\* again if and only if that cursor is present.
C4_EnterFetchesOnePage ==
    [][ /\ PromptStep(Enter) =>
            /\ fetchCalls' = fetchCalls + 1
            /\ fetchLog' = Append(fetchLog, current_next_url)
            /\ pc' \in {"prompt", "raised"}
            /\ pc' = "prompt" =>
                 /\ all_items' = all_items \o pages[current_next_url]
                 /\ current_next_url' = nextOf[current_next_url]
        /\ pc = "prompt" =>
            ((prompts' = prompts + 1) <=> Truthy(current_next_url))
      ]_vars

C4_Witness ==
    /\ pc = "prompt"
    /\ choiceLog = <<Enter>>
    /\ fetchLog = <<2>>
    /\ all_items = <<ItemId(1, 1), ItemId(2, 1)>>
    /\ current_next_url = 3

\* C5: after input 'a' no further prompt is issued; every remaining page is
\* fetched until the cursor is absent, then the full accumulated list is
\* rendered exactly once and returned: it is the concatenation of all pages.
C5_LoadAllFetchesEverything ==
    /\ \A i \in 1..Len(choiceLog) : choiceLog[i] = LoadAll => i = Len(choiceLog)
    /\ (choiceLog # <<>> /\ Last(choiceLog) = LoadAll) =>
         /\ pc \in {"load_all", "returned", "raised"}
         /\ pc # "returned" => Len(rendered) = 1 + CountEnters(choiceLog)
         /\ pc = "returned" =>
              /\ current_next_url = None
              /\ ChainIsFinite
              /\ result = items \o ConcatRemaining(next_page_url)
              /\ fetchCalls = RemainingPages(next_page_url)
              /\ Len(rendered) = 2 + CountEnters(choiceLog)
              /\ Last(rendered) = result
    /\ pc = "load_all" => (choiceLog # <<>> /\ Last(choiceLog) = LoadAll)

C5_Witness ==
    /\ pc = "returned"
    /\ choiceLog = <<LoadAll>>
    /\ fetchCalls = 2
    /\ rendered = <<<<ItemId(1, 1)>>, <<ItemId(1, 1), ItemId(2, 1), ItemId(3, 1)>>>>

\* C6: input 'q' ends the run at once: the step returns the items accumulated
\* so far with the cursor still present, and from then on there is no fetch,
\* no prompt and no render.
C6_QuitStopsImmediately ==
    [][ /\ PromptStep(Quit) =>
            /\ pc' = "returned"
            /\ result' = all_items
            /\ Truthy(current_next_url')
            /\ UNCHANGED <<all_items, current_next_url, fetchCalls, fetchLog,
                           rendered, stdout, requests>>
        /\ (choiceLog # <<>> /\ Last(choiceLog) = Quit) =>
            /\ pc = "returned"
            /\ UNCHANGED <<pc, result, all_items, fetchCalls, prompts,
                           rendered, stdout, requests>>
      ]_vars

C6_Witness ==
    /\ entry = "list_projects"
    /\ cmd = "done"
    /\ choiceLog = <<Quit>>
    /\ result = <<ItemId(1, 1)>>
    /\ current_next_url = 2
    /\ fetchCalls = 0

\* C7: any other input makes no fetch, leaves the accumulated items and the
\* cursor unchanged, raises nothing, reports the invalid choice and leaves the
\* loop at its prompt with the cursor present.
C7_InvalidInputReprompts ==
    [][ (/\ pc = "prompt"
         /\ prompts' = prompts + 1
         /\ Last(choiceLog') \notin {Enter, LoadAll, Quit}) =>
            /\ pc' = "prompt"
            /\ Truthy(current_next_url')
            /\ Last(stderr').msg = "Invalid choice"
            /\ UNCHANGED <<all_items, current_next_url, result, fetchCalls,
                           fetchLog, requests, failures, rendered, stdout>>
      ]_vars

C7_Witness ==
    /\ pc = "prompt"
    /\ choiceLog = <<<<"x">>, <<"x">>>>
    /\ prompts = 2
    /\ fetchCalls = 0
    /\ all_items = <<ItemId(1, 1)>>

\* C8: k empty inputs followed by 'q' return the concatenation of the first
\* k+1 pages after exactly k fetch_next_page calls.
C8_EntersThenQuit ==
    (/\ pc = "returned"
     /\ choiceLog # <<>>
     /\ Last(choiceLog) = Quit
     /\ \A i \in 1..(Len(choiceLog) - 1) : choiceLog[i] = Enter) =>
        LET k == Len(choiceLog) - 1
        IN /\ result = ConcatWalk(1, k + 1)
           /\ fetchCalls = k
           /\ ChainIsFinite => k + 1 < Len(pages)
           /\ fetchLog = [i \in 1..k |-> CursorAfter(1, i)]

C8_Witness ==
    /\ pc = "returned"
    /\ Len(pages) = 3
    /\ ChainIsFinite
    /\ choiceLog = <<Enter, Quit>>
    /\ result = <<ItemId(1, 1), ItemId(2, 1)>>
    /\ fetchCalls = 1

\* C9: every step leaves the accumulated items as a prefix of their new value,
\* a fetch_next_page call is made only while the cursor is present, and once
\* the running call has no cursor it stays so.
C9_ItemsOnlyGrow ==
    [][ /\ IsPrefix(all_items, all_items')
        /\ fetchCalls' # fetchCalls => Truthy(current_next_url)
        /\ (pc \notin {"idle", "call"} /\ ~Truthy(current_next_url)) =>
             UNCHANGED <<current_next_url, all_items, fetchCalls>>
      ]_vars

C9_Witness ==
    /\ pc = "returned"
    /\ choiceLog = <<Enter, Enter>>
    /\ current_next_url = None
    /\ all_items = <<ItemId(1, 1), ItemId(2, 1), ItemId(3, 1)>>

\* C10: a failed fetch is neither caught nor retried: after it no request is
\* sent, handle_pagination never returns and yields no result, and the command
\* prints an error, exits with a non-zero status and prints no final result
\* (standard output holds only what the engine had displayed before).
C10_FetchFailureAborts ==
    [][ /\ failures' > failures => failures = 0
        /\ failures > 0 =>
             UNCHANGED <<requests, fetchCalls, all_items, result, stdout, rendered>>
        /\ failures' > 0 =>
             /\ pc' \in {"idle", "raised"}
             /\ result' = <<>>
             /\ cmd' \in {"none", "in_engine", "aborted"}
             /\ exitCode' # 0
             /\ Len(stdout') = Len(rendered')
        /\ (failures > 0 /\ cmd = "in_engine") => cmd' = "aborted"
        /\ (failures' > 0 /\ cmd' = "aborted") =>
             /\ exitCode' = 1
             /\ \E i \in 1..Len(stderr') : stderr'[i].msg = "Error: request failed"
      ]_vars

C10_Witness ==
    /\ cmd = "aborted"
    /\ exitCode = 1
    /\ failures = 1
    /\ pc = "raised"
    /\ fetchCalls = 2
    /\ Len(stdout) = 2

\* some choice read so far was not one of '', 'a', 'q'
InvalidTyped == \E i \in 1..Len(choiceLog) : choiceLog[i] \notin {Enter, LoadAll, Quit}

\* C11: on a finite chain a call of handle_pagination ends (it returns, or a
\* failed fetch raises): always under all_pages, and in interactive mode
\* unless invalid input has used up the prompts of the run; the prompt loop is
\* left for the return only with the cursor absent or on 'q', the 'a' loop
\* only with the cursor absent.
C11_Terminates ==
    /\ (ChainIsFinite /\ pc = "call") ~>
           \/ pc \in {"returned", "raised"}
           \/ (pc = "prompt" /\ prompts = MaxPrompts /\ InvalidTyped)
    /\ [][ /\ (pc = "prompt" /\ pc' = "returned") =>
                (~Truthy(current_next_url) \/ PromptStep(Quit))
           /\ (pc = "load_all" /\ pc' = "returned") => ~Truthy(current_next_url)
         ]_vars

C11_Witness ==
    /\ pc = "returned"
    /\ ChainIsFinite
    /\ ~all_pages
    /\ choiceLog = <<<<"x">>, Enter, Enter>>
    /\ current_next_url = None
    /\ fetchCalls = 2

\* the command was started with --all-pages or with format json or plain
RunsNonInteractively == all_pages \/ format \in {"json", "plain"}

\* C12: in a non-interactive run of the list command the engine displays
\* nothing and never prompts; standard output stays empty until the command
\* writes the rendered result, once, and no request is sent after that.
C12_NonInteractiveSingleOutput ==
    /\ [](  (entry = "list_projects" /\ RunsNonInteractively) =>
              /\ rendered = <<>>
              /\ prompts = 0
              /\ cmd # "done" => stdout = <<>>
              /\ cmd = "done" => stdout = <<FormatOutput(result, format)>> )
    /\ [][ (entry = "list_projects" /\ RunsNonInteractively /\ stdout # <<>>) =>
              UNCHANGED <<stdout, requests, fetchCalls>> ]_vars

C12_Witness ==
    /\ entry = "list_projects"
    /\ cmd = "done"
    /\ all_pages
    /\ format = "json"
    /\ requests = 3
    /\ stdout = <<FormatOutput(<<ItemId(1, 1), ItemId(2, 1), ItemId(3, 1)>>, "json")>>

\* some message on standard error tells that more pages exist
ToldMorePages ==
    \E i \in 1..Len(stderr) :
        stderr[i].msg \in {"More pages available", "More results available", "Showing items"}

\* C13: a non-interactive list command without --all-pages whose first page
\* carries a cursor outputs only the first page and tells the user that more
\* pages exist.
C13_FirstPageAndNotice ==
    (/\ entry = "list_projects"
     /\ cmd = "done"
     /\ ~all_pages
     /\ format \in {"json", "plain"}
     /\ Truthy(next_page_url)) =>
        /\ stdout = <<FormatOutput(pages[1], format)>>
        /\ ToldMorePages

\* the characters of a line that are not whitespace, in order
NonBlank(line) == SelectSeq(line, LAMBDA c : c \notin Whitespace)

\* C14: the choice is classified after trimming and lower-casing: a line whose
\* only non-blank character is 'a' or 'A' selects the load-all branch, 'q' or
\* 'Q' the quit branch, a blank or empty line the next-page branch of the
\* empty input, and every other line is invalid.
C14_ChoiceNormalised ==
    choiceKind \notin {"idle", "unread"} =>
        LET core == NonBlank(rawLine)
        IN choiceKind = (IF core = <<>> THEN "next"
                         ELSE IF Len(core) = 1 /\ core[1] \in {"a", "A"} THEN "all"
                         ELSE IF Len(core) = 1 /\ core[1] \in {"q", "Q"} THEN "quit"
                         ELSE "invalid")

C14_Witness ==
    /\ rawLine = <<" ", "A", " ">>
    /\ choiceKind = "all"

\* C15: the command uses the --account-id argument if given, otherwise the
\* configured account id; with neither it prints that the account id is
\* required and aborts with a non-zero status, creating no client and sending
\* no request.
C15_AccountResolution ==
    (entry = "list_projects" /\ cmd # "start") =>
        IF argAccountId # NoAccount THEN client = argAccountId
        ELSE IF cfgAccountId # NoAccount THEN client = cfgAccountId
        ELSE /\ client = NoClient
             /\ cmd = "aborted"
             /\ exitCode = 1
             /\ requests = 0
             /\ stderr[1].msg =
                  "Error: Account ID is required. Either provide --account-id or configure it"

C15_Witness ==
    /\ entry = "list_projects"
    /\ argAccountId = NoAccount
    /\ cfgAccountId = NoAccount
    /\ cmd = "aborted"
    /\ client = NoClient
    /\ requests = 0
    /\ exitCode = 1

\* the keyring key of an account, written out
KeyText(account_id) ==
    IF account_id \in {<<>>, <<"">>}
    THEN <<"tokens", ":", "default">>
    ELSE <<"tokens", ":", account_id[1]>>

\* C16: after store_tokens for an account, get_tokens for it returns the
\* access and refresh tokens just stored; they are kept under the key
\* 'tokens:<account_id>' ('tokens:default' when no account is given), and
\* storing or clearing for one account leaves what get_tokens returns for
\* every other account unchanged.
C16_StoreGetIsolated ==
    [][\A a \in TMAccountArgs :
         /\ (tmOp' = "store_tokens" /\ tmAccount' = a) =>
              LET after == get_tokens(a)'
              IN /\ after # <<>>
                 /\ after[1].access_token = tmArgs'[1]
                 /\ after[1].refresh_token = tmArgs'[2]
                 /\ keyring'[KeyText(a)] = after
         /\ (tmOp' \in {"store_tokens", "clear_tokens"} /\ tmAccount' = a) =>
              /\ \A k \in KeyringKeys \ {KeyText(a)} : keyring'[k] = keyring[k]
              /\ \A b \in TMAccountArgs :
                   KeyText(b) # KeyText(a) => get_tokens(b)' = get_tokens(b)
      ]_vars

C16_Witness ==
    /\ tmOp = "get_tokens"
    /\ tmAccount = <<"1">>
    /\ tmReturn = <<[access_token |-> "at2", refresh_token |-> <<"rt1">>,
                     expires_at |-> <<>>]>>
    /\ keyring[<<"tokens", ":", "default">>] # <<>>
    /\ keyring[<<"tokens", ":", "default">>][1].access_token = "at1"

\* C17: after clear_tokens for an account, get_tokens and get_access_token
\* return None and is_token_expired returns True for it; clear_tokens with
\* no tokens stored returns normally and changes nothing in the keyring.
C17_ClearIdempotent ==
    [][\A a \in TMAccountArgs :
         (tmOp' = "clear_tokens" /\ tmAccount' = a) =>
            /\ get_tokens(a)' = <<>>
            /\ get_access_token(a)' = <<>>
            /\ is_token_expired(a)' = TRUE
            /\ tmReturn' \in {"deleted", "PasswordDeleteError ignored"}
            /\ get_tokens(a) = <<>> => keyring' = keyring
      ]_vars

C17_Witness ==
    /\ tmOp = "clear_tokens"
    /\ tmAccount = <<"1">>
    /\ tmReturn = "PasswordDeleteError ignored"
    /\ keyring[<<"tokens", ":", "1">>] = <<>>
    /\ keyring[<<"tokens", ":", "default">>] # <<>>

\* C18: is_token_expired is True with no tokens stored, False for tokens
\* without expiry, otherwise True exactly from expires_at on; tokens stored
\* at time t with expires_in = n (any n >= 0) get expires_at = t + n and are
\* reported expired at exactly the times >= t + n.
C18_ExpiryExact ==
    /\ [](\A a \in TMAccountArgs :
            LET stored == keyring[KeyText(a)]
            IN is_token_expired(a) =
                 IF stored = <<>> THEN TRUE
                 ELSE IF stored[1].expires_at = <<>> THEN FALSE
                 ELSE now >= stored[1].expires_at[1][2])
    /\ [][\A a \in TMAccountArgs :
            (tmOp' = "store_tokens" /\ tmAccount' = a /\ tmArgs'[3] # <<>>) =>
               /\ keyring'[KeyText(a)][1].expires_at = <<<<"T", now + tmArgs'[3][1]>>>>
               /\ is_token_expired(a)' = (now' >= now + tmArgs'[3][1])
         ]_vars

\* C19: set, configure_oauth and set_account_id change only their own key:
\* get(k) is the value most recently written for k, and a call leaves the
\* value of every key other than its own as it was.
C19_OnlyOwnKeyChanges ==
    /\ [](\A k \in CfgKeys : get(k) = written[k])
    /\ [][\A k \in CfgKeys : k # cfgKey' => get(k)' = get(k)]_vars

C19_Witness ==
    /\ cfgOp = "configure_oauth"
    /\ get("account_id") = <<1>>
    /\ get("theme") = <<"dark">>
    /\ get("oauth") = <<[client_id |-> "id2", client_secret |-> "s1",
                         redirect_uri |-> "http://localhost:9000/callback"]>>

\* C20: configure_oauth without a redirect_uri stores
\* 'urn:ietf:wg:oauth:2.0:oob', and get_oauth_config returns it with the
\* given client_id and client_secret; get_oauth_config is None when OAuth
\* was never configured.
C20_DefaultRedirectIsOob ==
    /\ written["oauth"] = <<>> => get_oauth_config = <<>>
    /\ (cfgOp = "configure_oauth" /\ cfgArgs[3] = <<>>) =>
          get_oauth_config = <<[client_id |-> cfgArgs[1],
                                client_secret |-> cfgArgs[2],
                                redirect_uri |-> "urn:ietf:wg:oauth:2.0:oob"]>>

\* the items of a sequence of lists, in order
RECURSIVE Flatten(_)
Flatten(lists) == IF lists = <<>> THEN <<>> ELSE Head(lists) \o Flatten(Tail(lists))

NoDuplicates(s) == \A i, j \in 1..Len(s) : i # j => s[i] # s[j]

\* the fetch_next_page calls that returned a page
Successes == fetchCalls - (IF pc = "raised" THEN 1 ELSE 0)

\* the pages obtained so far: the first page, then the fetched ones
ObtainedPages == <<1>> \o SubSeq(fetchLog, 1, Successes)

\* a run of the interactive path in which only empty inputs were typed
EnterOnlyRun ==
    /\ interactive /\ ~all_pages /\ Truthy(next_page_url)
    /\ pc \in {"prompt", "returned", "raised"}
    /\ \A i \in 1..Len(choiceLog) : choiceLog[i] = Enter

\* on an Enter-only path the first page is displayed before the first
\* prompt and every fetched page once, right after its fetch, on its own
RenderedPerFetch ==
    /\ [](EnterOnlyRun =>
            /\ Len(rendered) = 1 + Successes
            /\ rendered[1] = items
            /\ \A i \in 1..Successes : rendered[i + 1] = pages[fetchLog[i]]
            /\ Flatten(rendered) = all_items
            /\ stdout = [i \in 1..Len(rendered) |-> FormatOutput(rendered[i], format)])
    /\ [][(PromptStep(Enter) /\ pc' = "prompt") =>
            /\ fetchCalls' = fetchCalls + 1
            /\ rendered' = Append(rendered, pages[current_next_url])]_vars

\* C24 as stated: in interactive mode the first page is rendered before the
\* first prompt, along empty inputs each fetched page is rendered exactly
\* once, right after its fetch, with only its own items, and no item is
\* printed twice on an Enter-only path.
C24_NoItemPrintedTwice ==
    /\ RenderedPerFetch
    /\ [](EnterOnlyRun => NoDuplicates(Flatten(rendered)))

\* C24 amended: the rendering is per fetch as stated, and no item is printed
\* twice on an Enter-only path on which no cursor led back to a page already
\* obtained.
C24_NoItemPrintedTwiceWithoutRevisit ==
    /\ RenderedPerFetch
    /\ []((EnterOnlyRun /\ NoDuplicates(ObtainedPages)) =>
            NoDuplicates(Flatten(rendered)))

C24_Witness ==
    /\ EnterOnlyRun
    /\ pc = "returned"
    /\ items = <<>>
    /\ choiceLog = <<Enter, Enter>>
    /\ rendered = <<<<>>, <<ItemId(2, 1)>>, <<ItemId(3, 1)>>>>

\* every call received the cursor that came with the page obtained before it
\* and no call received an absent cursor
CursorDiscipline ==
    \A i \in 1..Len(fetchLog) :
        /\ fetchLog[i] = (IF i = 1 THEN next_page_url ELSE nextOf[fetchLog[i - 1]])
        /\ fetchLog[i] # None

\* C25 as stated: every fetch_next_page call receives the cursor returned
\* with the most recently obtained page, never an absent cursor, and the
\* first page is never fetched again by the engine.
C25_FirstPageNeverRefetched ==
    /\ CursorDiscipline
    /\ \A i \in 1..Len(fetchLog) : fetchLog[i] # 1

\* C25 amended: every call receives the cursor returned with the most
\* recently obtained page, never an absent one; the first page is fetched
\* again only when the cursor of the last page points back to it.
C25_FirstPageRefetchedOnlyByCursor ==
    /\ CursorDiscipline
    /\ \A i \in 1..Len(fetchLog) :
         fetchLog[i] = 1 => nextOf[Len(pages)] = 1

C25_Witness ==
    /\ pc = "returned"
    /\ all_pages
    /\ entry = "engine"
    /\ next_page_url = 2
    /\ fetchLog = <<2, 3>>
    /\ nextOf[3] = None

\* C26: no deduplication and no cycle detection: every fetched page is
\* appended whether or not it was fetched before, and with all_pages or
\* after 'a' a chain without an absent cursor never lets the run return: it
\* goes on fetching until a fetch fails.
C26_NoCycleDetection ==
    /\ [](pc \in {"auto_loop", "prompt", "load_all", "returned", "raised"} =>
            all_items = items \o Flatten([i \in 1..Successes |-> pages[fetchLog[i]]]))
    /\ []((~ChainIsFinite /\ (all_pages \/ pc = "load_all")) => pc # "returned")
    /\ (~ChainIsFinite /\ all_pages /\ pc = "call") ~>
           (pc = "raised" \/ fetchCalls = MaxFetches)
    /\ (~ChainIsFinite /\ pc = "load_all") ~>
           (pc = "raised" \/ fetchCalls = MaxFetches)

C26_Witness ==
    /\ ~ChainIsFinite
    /\ all_pages
    /\ pc = "auto_loop"
    /\ fetchCalls = MaxFetches
    /\ \E i, j \in 1..Len(fetchLog) :
         i < j /\ fetchLog[i] = fetchLog[j] /\ pages[fetchLog[i]] # <<>>
    /\ ~NoDuplicates(all_items)

\* C27: a list command that completes successfully has written every item
\* it obtained to standard output at least once.
C27_EveryItemOutput ==
    (entry = "list_projects" /\ cmd = "done") =>
        \A i \in 1..Len(result) :
            \E j \in 1..Len(stdout) :
                \E k \in 1..Len(stdout[j].rows) : stdout[j].rows[k] = result[i]

\* C29: with --all-pages the client requests every page once and hands the
\* concatenation over with an absent cursor, handle_pagination fetches
\* nothing more, and the output holds every item once.
C29_AllPagesRequestedOnce ==
    (entry = "list_projects" /\ all_pages) =>
        /\ fetchCalls = 0
        /\ cmd \in {"in_engine", "done"} =>
              /\ ChainIsFinite
              /\ requests = Len(pages)
              /\ items = ConcatRemaining(1)
              /\ next_page_url = None
        /\ cmd = "done" =>
              /\ stdout = <<FormatOutput(ConcatRemaining(1), format)>>
              /\ NoDuplicates(stdout[1].rows)

C29_Witness ==
    /\ entry = "list_projects"
    /\ all_pages
    /\ format = "table"
    /\ cmd = "done"
    /\ requests = 3
    /\ fetchCalls = 0
    /\ Len(stdout) = 1
    /\ Len(stdout[1].rows) = 3

\* the account an auth run authenticates: the argument, else the configured id
AuthAccount == IF cliArgs[1] # NoAccount THEN cliArgs[1] ELSE get_account_id

\* C21: authenticate calls store_tokens on the handler's token manager
\* exactly once when OAuth is configured and the exchange returns an access
\* token; when OAuth is not configured no browser is opened and no exchange
\* attempted, and then, or when the exchange fails or the response has no
\* access token, store_tokens is not called.
C21_StoresOnceOnHandlerManager ==
    cliOp = "auth" =>
        IF get_oauth_config = <<>>
        THEN browserOpens = 0 /\ exchangeCalls = 0 /\ storeCalls = NoStoreCalls
        ELSE IF HasAccessToken(cliArgs[2])
        THEN storeCalls = [NoStoreCalls EXCEPT !["self.token_manager"] = 1]
        ELSE storeCalls = NoStoreCalls

\* C22: the API client sends no request unless an access token and an
\* account id are available: without an account id the operation raises
\* 'Account ID is required', without a stored access token 'No access token
\* available', both with zero requests sent.
C22_NoRequestWithoutTokenAndAccount ==
    LET stored == keyring[<<"tokens", ":", "default">>]
        hasToken == stored # <<>> /\ stored[1].access_token # ""
    IN /\ apiRequests > 0 => (hasToken /\ cliOp \in {"api_client", "api_command"})
       /\ cliOp = "api_client" =>
            LET account == IF cliArgs[2] \in {NoAccount, 0} THEN cliArgs[1]
                           ELSE cliArgs[2]
            IN IF account \in {NoAccount, 0}
               THEN cliOutcome = "Account ID is required" /\ apiRequests = 0
               ELSE IF ~hasToken
               THEN cliOutcome = "No access token available" /\ apiRequests = 0
               ELSE cliOutcome = "sent" /\ apiRequests = 1
       /\ cliOp = "api_command" =>
            LET account == IF cliArgs[1] # NoAccount THEN cliArgs[1]
                           ELSE get_account_id
            IN IF account \in {NoAccount, 0}
               THEN cliOutcome = "Account ID is required" /\ apiRequests = 0
               ELSE IF ~hasToken
               THEN cliOutcome = "No access token available" /\ apiRequests = 0
               ELSE cliOutcome = "sent" /\ apiRequests = 1

C22_Witness ==
    /\ cliOp = "api_client"
    /\ cliArgs = <<1, NoAccount>>
    /\ cliOutcome = "No access token available"
    /\ apiRequests = 0
    /\ \A k \in KeyringKeys : keyring[k] = <<>>

\* C23: after logout no access token stored by an earlier auth run, with or
\* without --account-id, is retrievable any more.
C23_LogoutClearsEveryToken ==
    [][cliOp' = "logout" => \A k \in KeyringKeys : keyring'[k] = <<>>]_vars

\* C28: after a successful auth for an account, the client that commands
\* create for that account reads the access token auth stored: the key
\* authenticate writes and the key the client reads are the same.
C28_ClientReadsWhatAuthStored ==
    (cliOp = "auth" /\ cliOutcome = "Authentication successful") =>
        /\ get_keyring_key(ClientTokenManager(AuthAccount)) =
             get_keyring_key(<<AccountIdStr(AuthAccount)>>)
        /\ get_access_token(ClientTokenManager(AuthAccount)) = <<cliArgs[2][2]>>
        /\ ApiOutcome(AuthAccount, NoAccount).outcome # "No access token available"

\* the search loop can take no step: it has returned or raised, or waits for
\* a line or a fetch the engine's run does not hold
SearchAtRest ==
    /\ searchPc # "idle"
    /\ ~ENABLED (SearchPrompt \/ SearchPromptLoopExit \/ SearchLoadAllFetch
                 \/ SearchLoadAllDone)

\* the engine can take no step: it has returned or raised, or a bound of the
\* model stops it
EngineAtRest ==
    ~ENABLED (HandlePaginationCall \/ Prompt \/ PromptLoopExit \/ LoadAllFetch
              \/ LoadAllDone)

\* C30: replaying the pages and the lines of a run of handle_pagination's
\* interactive path, _handle_search_pagination accumulates a prefix of the
\* engine's items, and once both have come to rest it stands where the
\* engine stands, with the same items in the same order, the same cursor,
\* the same number of fetches and of prompts.
C30_SearchRefinesEngine ==
    /\ searchPc # "idle" =>
          /\ IsPrefix(all_results, all_items)
          /\ searchFetches <= fetchCalls
          /\ searchPrompts <= prompts
    /\ (SearchAtRest /\ EngineAtRest) =>
          /\ searchPc = pc
          /\ all_results = all_items
          /\ current_page = current_next_url
          /\ searchFetches = fetchCalls
          /\ searchPrompts = prompts

C30_Witness ==
    /\ searchPc = "returned"
    /\ pc = "returned"
    /\ choiceLog = <<<<"x">>, Enter, LoadAll>>
    /\ searchFetches = 2
    /\ fetchCalls = 2
    /\ all_results = <<ItemId(1, 1), ItemId(2, 1)>>

====
